---------------------------- MODULE Spec2Model ----------------------------
(***************************************************************************)
(* Model of the two scripts of the repository:                             *)
(*   github-star-repos/github-stars.py  (fetch -> export -> recap)         *)
(*   ollama_updater/ollama-updater.py   (list -> diff -> pull -> log)      *)
(*                                                                         *)
(* Python strings are sequences of Unicode code points.  JSON / Python     *)
(* values that may be None or of several types are tagged records          *)
(* [t |-> type, v |-> payload]; Python dicts are functions from keys.      *)
(***************************************************************************)
EXTENDS Integers, Sequences, FiniteSets, TLC

VARIABLES
    pc,             \* position of main(): request/respond/export/recap/done/crashed
    page,           \* get_starred_repos: local `page`
    repos,          \* get_starred_repos: local `repos`, then main's `repos`
    response,       \* the HTTP response in flight (requests.get has returned)
    requested,      \* history: page numbers of the requests issued, in order
    served,         \* history: the responses received, in order
    snapshot_file,  \* contents of OUTPUT_JSON on disk
    export_data,    \* main's `export_data` (the document export_to_json returns)
    out,            \* the terminal lines printed by print_recap
    content,        \* pad_line: argument `content`
    total_width,    \* pad_line: argument `total_width`
    padded,         \* pad_line: the returned string
    upc,            \* position of check_updates()
    local_models,   \* check_updates: `local_models`
    remote_models,  \* check_updates: `remote_models`
    updates,        \* check_updates: `updates`
    pending,        \* members of `updates` the for loop has not visited yet
    pulled,         \* history: the arguments of the pull_model calls, in order
    log             \* lines appended to ollama_update.log

pipeVars == <<pc, page, repos, response, requested, served, snapshot_file, export_data, out>>
padVars  == <<content, total_width, padded>>
updVars  == <<upc, local_models, remote_models, updates, pending, pulled, log>>
vars     == <<pipeVars, padVars, updVars>>

---------------------------------------------------------------------------
(* Bounds of the model *)

MaxLen == 3
MaxWidth == 5

---------------------------------------------------------------------------
(* Python / JSON values *)

None      == [t |-> "none"]
PyBool(b) == [t |-> "bool", v |-> b]
PyInt(n)  == [t |-> "int",  v |-> n]
PyStr(s)  == [t |-> "str",  v |-> s]
PyList(s) == [t |-> "list", v |-> s]
PyDict(d) == [t |-> "dict", v |-> d]

EmptyDict == <<>>

\* bool(v): Python truthiness
Truthy(v) ==
    CASE v.t = "none" -> FALSE
      [] v.t = "bool" -> v.v
      [] v.t = "int"  -> v.v # 0
      [] v.t = "str"  -> Len(v.v) > 0
      [] v.t = "list" -> Len(v.v) > 0
      [] v.t = "dict" -> DOMAIN v.v # {}

\* d.get(k, default) on a dict d
GetOr(d, k, default) == IF k \in DOMAIN d THEN d[k] ELSE default

\* d.get(k)
Get(d, k) == GetOr(d, k, None)

---------------------------------------------------------------------------
(* display_width and pad_line *)

VS_FIRST == 65024      \* U+FE00
VS_LAST  == 65039      \* U+FE0F
ZWJ      == 8205       \* U+200D
EMOJI_THRESHOLD == 127744   \* 0x1F300
SPACE    == 32

\* unicodedata.east_asian_width(char) in ('W', 'F'): every inclusive range of
\* code points in U+0000..U+10FFFF for which the interpreter's table (Unicode
\* database 14.0.0, CPython 3.11) answers W or F.  That table also answers F
\* for the code points the database leaves unassigned.
WideRanges ==
    {
      <<888, 889>>, <<896, 899>>, <<907, 907>>, <<909, 909>>, <<930, 930>>,
      <<1328, 1328>>, <<1367, 1368>>, <<1419, 1420>>, <<1424, 1424>>, <<1480, 1487>>,
      <<1515, 1518>>, <<1525, 1535>>, <<1806, 1806>>, <<1867, 1868>>, <<1970, 1983>>,
      <<2043, 2044>>, <<2094, 2095>>, <<2111, 2111>>, <<2140, 2141>>, <<2143, 2143>>,
      <<2155, 2159>>, <<2191, 2191>>, <<2194, 2199>>, <<2436, 2436>>, <<2445, 2446>>,
      <<2449, 2450>>, <<2473, 2473>>, <<2481, 2481>>, <<2483, 2485>>, <<2490, 2491>>,
      <<2501, 2502>>, <<2505, 2506>>, <<2511, 2518>>, <<2520, 2523>>, <<2526, 2526>>,
      <<2532, 2533>>, <<2559, 2560>>, <<2564, 2564>>, <<2571, 2574>>, <<2577, 2578>>,
      <<2601, 2601>>, <<2609, 2609>>, <<2612, 2612>>, <<2615, 2615>>, <<2618, 2619>>,
      <<2621, 2621>>, <<2627, 2630>>, <<2633, 2634>>, <<2638, 2640>>, <<2642, 2648>>,
      <<2653, 2653>>, <<2655, 2661>>, <<2679, 2688>>, <<2692, 2692>>, <<2702, 2702>>,
      <<2706, 2706>>, <<2729, 2729>>, <<2737, 2737>>, <<2740, 2740>>, <<2746, 2747>>,
      <<2758, 2758>>, <<2762, 2762>>, <<2766, 2767>>, <<2769, 2783>>, <<2788, 2789>>,
      <<2802, 2808>>, <<2816, 2816>>, <<2820, 2820>>, <<2829, 2830>>, <<2833, 2834>>,
      <<2857, 2857>>, <<2865, 2865>>, <<2868, 2868>>, <<2874, 2875>>, <<2885, 2886>>,
      <<2889, 2890>>, <<2894, 2900>>, <<2904, 2907>>, <<2910, 2910>>, <<2916, 2917>>,
      <<2936, 2945>>, <<2948, 2948>>, <<2955, 2957>>, <<2961, 2961>>, <<2966, 2968>>,
      <<2971, 2971>>, <<2973, 2973>>, <<2976, 2978>>, <<2981, 2983>>, <<2987, 2989>>,
      <<3002, 3005>>, <<3011, 3013>>, <<3017, 3017>>, <<3022, 3023>>, <<3025, 3030>>,
      <<3032, 3045>>, <<3067, 3071>>, <<3085, 3085>>, <<3089, 3089>>, <<3113, 3113>>,
      <<3130, 3131>>, <<3141, 3141>>, <<3145, 3145>>, <<3150, 3156>>, <<3159, 3159>>,
      <<3163, 3164>>, <<3166, 3167>>, <<3172, 3173>>, <<3184, 3190>>, <<3213, 3213>>,
      <<3217, 3217>>, <<3241, 3241>>, <<3252, 3252>>, <<3258, 3259>>, <<3269, 3269>>,
      <<3273, 3273>>, <<3278, 3284>>, <<3287, 3292>>, <<3295, 3295>>, <<3300, 3301>>,
      <<3312, 3312>>, <<3315, 3327>>, <<3341, 3341>>, <<3345, 3345>>, <<3397, 3397>>,
      <<3401, 3401>>, <<3408, 3411>>, <<3428, 3429>>, <<3456, 3456>>, <<3460, 3460>>,
      <<3479, 3481>>, <<3506, 3506>>, <<3516, 3516>>, <<3518, 3519>>, <<3527, 3529>>,
      <<3531, 3534>>, <<3541, 3541>>, <<3543, 3543>>, <<3552, 3557>>, <<3568, 3569>>,
      <<3573, 3584>>, <<3643, 3646>>, <<3676, 3712>>, <<3715, 3715>>, <<3717, 3717>>,
      <<3723, 3723>>, <<3748, 3748>>, <<3750, 3750>>, <<3774, 3775>>, <<3781, 3781>>,
      <<3783, 3783>>, <<3790, 3791>>, <<3802, 3803>>, <<3808, 3839>>, <<3912, 3912>>,
      <<3949, 3952>>, <<3992, 3992>>, <<4029, 4029>>, <<4045, 4045>>, <<4059, 4095>>,
      <<4294, 4294>>, <<4296, 4300>>, <<4302, 4303>>, <<4352, 4447>>, <<4681, 4681>>,
      <<4686, 4687>>, <<4695, 4695>>, <<4697, 4697>>, <<4702, 4703>>, <<4745, 4745>>,
      <<4750, 4751>>, <<4785, 4785>>, <<4790, 4791>>, <<4799, 4799>>, <<4801, 4801>>,
      <<4806, 4807>>, <<4823, 4823>>, <<4881, 4881>>, <<4886, 4887>>, <<4955, 4956>>,
      <<4989, 4991>>, <<5018, 5023>>, <<5110, 5111>>, <<5118, 5119>>, <<5789, 5791>>,
      <<5881, 5887>>, <<5910, 5918>>, <<5943, 5951>>, <<5972, 5983>>, <<5997, 5997>>,
      <<6001, 6001>>, <<6004, 6015>>, <<6110, 6111>>, <<6122, 6127>>, <<6138, 6143>>,
      <<6170, 6175>>, <<6265, 6271>>, <<6315, 6319>>, <<6390, 6399>>, <<6431, 6431>>,
      <<6444, 6447>>, <<6460, 6463>>, <<6465, 6467>>, <<6510, 6511>>, <<6517, 6527>>,
      <<6572, 6575>>, <<6602, 6607>>, <<6619, 6621>>, <<6684, 6685>>, <<6751, 6751>>,
      <<6781, 6782>>, <<6794, 6799>>, <<6810, 6815>>, <<6830, 6831>>, <<6863, 6911>>,
      <<6989, 6991>>, <<7039, 7039>>, <<7156, 7163>>, <<7224, 7226>>, <<7242, 7244>>,
      <<7305, 7311>>, <<7355, 7356>>, <<7368, 7375>>, <<7419, 7423>>, <<7958, 7959>>,
      <<7966, 7967>>, <<8006, 8007>>, <<8014, 8015>>, <<8024, 8024>>, <<8026, 8026>>,
      <<8028, 8028>>, <<8030, 8030>>, <<8062, 8063>>, <<8117, 8117>>, <<8133, 8133>>,
      <<8148, 8149>>, <<8156, 8156>>, <<8176, 8177>>, <<8181, 8181>>, <<8191, 8191>>,
      <<8293, 8293>>, <<8306, 8307>>, <<8335, 8335>>, <<8349, 8351>>, <<8385, 8399>>,
      <<8433, 8447>>, <<8588, 8591>>, <<8986, 8987>>, <<9001, 9002>>, <<9193, 9196>>,
      <<9200, 9200>>, <<9203, 9203>>, <<9255, 9279>>, <<9291, 9311>>, <<9725, 9726>>,
      <<9748, 9749>>, <<9800, 9811>>, <<9855, 9855>>, <<9875, 9875>>, <<9889, 9889>>,
      <<9898, 9899>>, <<9917, 9918>>, <<9924, 9925>>, <<9934, 9934>>, <<9940, 9940>>,
      <<9962, 9962>>, <<9970, 9971>>, <<9973, 9973>>, <<9978, 9978>>, <<9981, 9981>>,
      <<9989, 9989>>, <<9994, 9995>>, <<10024, 10024>>, <<10060, 10060>>, <<10062, 10062>>,
      <<10067, 10069>>, <<10071, 10071>>, <<10133, 10135>>, <<10160, 10160>>, <<10175, 10175>>,
      <<11035, 11036>>, <<11088, 11088>>, <<11093, 11093>>, <<11124, 11125>>, <<11158, 11158>>,
      <<11508, 11512>>, <<11558, 11558>>, <<11560, 11564>>, <<11566, 11567>>, <<11624, 11630>>,
      <<11633, 11646>>, <<11671, 11679>>, <<11687, 11687>>, <<11695, 11695>>, <<11703, 11703>>,
      <<11711, 11711>>, <<11719, 11719>>, <<11727, 11727>>, <<11735, 11735>>, <<11743, 11743>>,
      <<11870, 12350>>, <<12352, 12871>>, <<12880, 19903>>, <<19968, 42191>>, <<42540, 42559>>,
      <<42744, 42751>>, <<42955, 42959>>, <<42962, 42962>>, <<42964, 42964>>, <<42970, 42993>>,
      <<43053, 43055>>, <<43066, 43071>>, <<43128, 43135>>, <<43206, 43213>>, <<43226, 43231>>,
      <<43348, 43358>>, <<43360, 43391>>, <<43470, 43470>>, <<43482, 43485>>, <<43519, 43519>>,
      <<43575, 43583>>, <<43598, 43599>>, <<43610, 43611>>, <<43715, 43738>>, <<43767, 43776>>,
      <<43783, 43784>>, <<43791, 43792>>, <<43799, 43807>>, <<43815, 43815>>, <<43823, 43823>>,
      <<43884, 43887>>, <<44014, 44015>>, <<44026, 55215>>, <<55239, 55242>>, <<55292, 55295>>,
      <<63744, 64255>>, <<64263, 64274>>, <<64280, 64284>>, <<64311, 64311>>, <<64317, 64317>>,
      <<64319, 64319>>, <<64322, 64322>>, <<64325, 64325>>, <<64451, 64466>>, <<64912, 64913>>,
      <<64968, 64974>>, <<64976, 65007>>, <<65040, 65055>>, <<65072, 65135>>, <<65141, 65141>>,
      <<65277, 65278>>, <<65280, 65376>>, <<65471, 65473>>, <<65480, 65481>>, <<65488, 65489>>,
      <<65496, 65497>>, <<65501, 65511>>, <<65519, 65528>>, <<65534, 65535>>, <<65548, 65548>>,
      <<65575, 65575>>, <<65595, 65595>>, <<65598, 65598>>, <<65614, 65615>>, <<65630, 65663>>,
      <<65787, 65791>>, <<65795, 65798>>, <<65844, 65846>>, <<65935, 65935>>, <<65949, 65951>>,
      <<65953, 65999>>, <<66046, 66175>>, <<66205, 66207>>, <<66257, 66271>>, <<66300, 66303>>,
      <<66340, 66348>>, <<66379, 66383>>, <<66427, 66431>>, <<66462, 66462>>, <<66500, 66503>>,
      <<66518, 66559>>, <<66718, 66719>>, <<66730, 66735>>, <<66772, 66775>>, <<66812, 66815>>,
      <<66856, 66863>>, <<66916, 66926>>, <<66939, 66939>>, <<66955, 66955>>, <<66963, 66963>>,
      <<66966, 66966>>, <<66978, 66978>>, <<66994, 66994>>, <<67002, 67002>>, <<67005, 67071>>,
      <<67383, 67391>>, <<67414, 67423>>, <<67432, 67455>>, <<67462, 67462>>, <<67505, 67505>>,
      <<67515, 67583>>, <<67590, 67591>>, <<67593, 67593>>, <<67638, 67638>>, <<67641, 67643>>,
      <<67645, 67646>>, <<67670, 67670>>, <<67743, 67750>>, <<67760, 67807>>, <<67827, 67827>>,
      <<67830, 67834>>, <<67868, 67870>>, <<67898, 67902>>, <<67904, 67967>>, <<68024, 68027>>,
      <<68048, 68049>>, <<68100, 68100>>, <<68103, 68107>>, <<68116, 68116>>, <<68120, 68120>>,
      <<68150, 68151>>, <<68155, 68158>>, <<68169, 68175>>, <<68185, 68191>>, <<68256, 68287>>,
      <<68327, 68330>>, <<68343, 68351>>, <<68406, 68408>>, <<68438, 68439>>, <<68467, 68471>>,
      <<68498, 68504>>, <<68509, 68520>>, <<68528, 68607>>, <<68681, 68735>>, <<68787, 68799>>,
      <<68851, 68857>>, <<68904, 68911>>, <<68922, 69215>>, <<69247, 69247>>, <<69290, 69290>>,
      <<69294, 69295>>, <<69298, 69375>>, <<69416, 69423>>, <<69466, 69487>>, <<69514, 69551>>,
      <<69580, 69599>>, <<69623, 69631>>, <<69710, 69713>>, <<69750, 69758>>, <<69827, 69836>>,
      <<69838, 69839>>, <<69865, 69871>>, <<69882, 69887>>, <<69941, 69941>>, <<69960, 69967>>,
      <<70007, 70015>>, <<70112, 70112>>, <<70133, 70143>>, <<70162, 70162>>, <<70207, 70271>>,
      <<70279, 70279>>, <<70281, 70281>>, <<70286, 70286>>, <<70302, 70302>>, <<70314, 70319>>,
      <<70379, 70383>>, <<70394, 70399>>, <<70404, 70404>>, <<70413, 70414>>, <<70417, 70418>>,
      <<70441, 70441>>, <<70449, 70449>>, <<70452, 70452>>, <<70458, 70458>>, <<70469, 70470>>,
      <<70473, 70474>>, <<70478, 70479>>, <<70481, 70486>>, <<70488, 70492>>, <<70500, 70501>>,
      <<70509, 70511>>, <<70517, 70655>>, <<70748, 70748>>, <<70754, 70783>>, <<70856, 70863>>,
      <<70874, 71039>>, <<71094, 71095>>, <<71134, 71167>>, <<71237, 71247>>, <<71258, 71263>>,
      <<71277, 71295>>, <<71354, 71359>>, <<71370, 71423>>, <<71451, 71452>>, <<71468, 71471>>,
      <<71495, 71679>>, <<71740, 71839>>, <<71923, 71934>>, <<71943, 71944>>, <<71946, 71947>>,
      <<71956, 71956>>, <<71959, 71959>>, <<71990, 71990>>, <<71993, 71994>>, <<72007, 72015>>,
      <<72026, 72095>>, <<72104, 72105>>, <<72152, 72153>>, <<72165, 72191>>, <<72264, 72271>>,
      <<72355, 72367>>, <<72441, 72703>>, <<72713, 72713>>, <<72759, 72759>>, <<72774, 72783>>,
      <<72813, 72815>>, <<72848, 72849>>, <<72872, 72872>>, <<72887, 72959>>, <<72967, 72967>>,
      <<72970, 72970>>, <<73015, 73017>>, <<73019, 73019>>, <<73022, 73022>>, <<73032, 73039>>,
      <<73050, 73055>>, <<73062, 73062>>, <<73065, 73065>>, <<73103, 73103>>, <<73106, 73106>>,
      <<73113, 73119>>, <<73130, 73439>>, <<73465, 73647>>, <<73649, 73663>>, <<73714, 73726>>,
      <<74650, 74751>>, <<74863, 74863>>, <<74869, 74879>>, <<75076, 77711>>, <<77811, 77823>>,
      <<78895, 78895>>, <<78905, 82943>>, <<83527, 92159>>, <<92729, 92735>>, <<92767, 92767>>,
      <<92778, 92781>>, <<92863, 92863>>, <<92874, 92879>>, <<92910, 92911>>, <<92918, 92927>>,
      <<92998, 93007>>, <<93018, 93018>>, <<93026, 93026>>, <<93048, 93052>>, <<93072, 93759>>,
      <<93851, 93951>>, <<94027, 94030>>, <<94088, 94094>>, <<94112, 113663>>, <<113771, 113775>>,
      <<113789, 113791>>, <<113801, 113807>>, <<113818, 113819>>, <<113828, 118527>>, <<118574, 118575>>,
      <<118599, 118607>>, <<118724, 118783>>, <<119030, 119039>>, <<119079, 119080>>, <<119275, 119295>>,
      <<119366, 119519>>, <<119540, 119551>>, <<119639, 119647>>, <<119673, 119807>>, <<119893, 119893>>,
      <<119965, 119965>>, <<119968, 119969>>, <<119971, 119972>>, <<119975, 119976>>, <<119981, 119981>>,
      <<119994, 119994>>, <<119996, 119996>>, <<120004, 120004>>, <<120070, 120070>>, <<120075, 120076>>,
      <<120085, 120085>>, <<120093, 120093>>, <<120122, 120122>>, <<120127, 120127>>, <<120133, 120133>>,
      <<120135, 120137>>, <<120145, 120145>>, <<120486, 120487>>, <<120780, 120781>>, <<121484, 121498>>,
      <<121504, 121504>>, <<121520, 122623>>, <<122655, 122879>>, <<122887, 122887>>, <<122905, 122906>>,
      <<122914, 122914>>, <<122917, 122917>>, <<122923, 123135>>, <<123181, 123183>>, <<123198, 123199>>,
      <<123210, 123213>>, <<123216, 123535>>, <<123567, 123583>>, <<123642, 123646>>, <<123648, 124895>>,
      <<124903, 124903>>, <<124908, 124908>>, <<124911, 124911>>, <<124927, 124927>>, <<125125, 125126>>,
      <<125143, 125183>>, <<125260, 125263>>, <<125274, 125277>>, <<125280, 126064>>, <<126133, 126208>>,
      <<126270, 126463>>, <<126468, 126468>>, <<126496, 126496>>, <<126499, 126499>>, <<126501, 126502>>,
      <<126504, 126504>>, <<126515, 126515>>, <<126520, 126520>>, <<126522, 126522>>, <<126524, 126529>>,
      <<126531, 126534>>, <<126536, 126536>>, <<126538, 126538>>, <<126540, 126540>>, <<126544, 126544>>,
      <<126547, 126547>>, <<126549, 126550>>, <<126552, 126552>>, <<126554, 126554>>, <<126556, 126556>>,
      <<126558, 126558>>, <<126560, 126560>>, <<126563, 126563>>, <<126565, 126566>>, <<126571, 126571>>,
      <<126579, 126579>>, <<126584, 126584>>, <<126589, 126589>>, <<126591, 126591>>, <<126602, 126602>>,
      <<126620, 126624>>, <<126628, 126628>>, <<126634, 126634>>, <<126652, 126703>>, <<126706, 126975>>,
      <<126980, 126980>>, <<127020, 127023>>, <<127124, 127135>>, <<127151, 127152>>, <<127168, 127168>>,
      <<127183, 127184>>, <<127222, 127231>>, <<127374, 127374>>, <<127377, 127386>>, <<127406, 127461>>,
      <<127488, 127776>>, <<127789, 127797>>, <<127799, 127868>>, <<127870, 127891>>, <<127904, 127946>>,
      <<127951, 127955>>, <<127968, 127984>>, <<127988, 127988>>, <<127992, 128062>>, <<128064, 128064>>,
      <<128066, 128252>>, <<128255, 128317>>, <<128331, 128334>>, <<128336, 128359>>, <<128378, 128378>>,
      <<128405, 128406>>, <<128420, 128420>>, <<128507, 128591>>, <<128640, 128709>>, <<128716, 128716>>,
      <<128720, 128722>>, <<128725, 128735>>, <<128747, 128751>>, <<128756, 128767>>, <<128884, 128895>>,
      <<128985, 129023>>, <<129036, 129039>>, <<129096, 129103>>, <<129114, 129119>>, <<129160, 129167>>,
      <<129198, 129199>>, <<129202, 129279>>, <<129292, 129338>>, <<129340, 129349>>, <<129351, 129535>>,
      <<129620, 129631>>, <<129646, 129791>>, <<129939, 129939>>, <<129995, 130031>>, <<130042, 917504>>,
      <<917506, 917535>>, <<917632, 917759>>, <<918000, 983039>>, <<1048574, 1048575>>, <<1114110, 1114111>> }

east_asian_wide(char) == \E r \in WideRanges : r[1] <= char /\ char <= r[2]

char_width(char) ==
    IF VS_FIRST <= char /\ char <= VS_LAST THEN 0
    ELSE IF char = ZWJ THEN 0
    ELSE IF east_asian_wide(char) THEN 2
    ELSE IF char > EMOJI_THRESHOLD THEN 2
    ELSE 1

\* the sum of the characters' widths (each is 0, 1 or 2)
display_width(s) ==
      Cardinality({i \in 1..Len(s) : char_width(s[i]) = 1})
    + 2 * Cardinality({i \in 1..Len(s) : char_width(s[i]) = 2})

\* " " * n  (the empty string when n <= 0)
Spaces(n) == [i \in 1..n |-> SPACE]

\* mutant: the width is the character count
pad_line_len(c, w) == c \o Spaces(w - Len(c))

pad_line(c, w) ==
    LET current_width  == display_width(c)
        padding_needed == w - current_width
    IN  c \o Spaces(padding_needed)

\* Characters pad_line is exercised on: A, B, a CJK ideograph (Wide), a
\* fullwidth letter, a variation selector, the joiner, an emoji above the
\* threshold that is not East-Asian wide, a block element (Ambiguous), and the
\* ideographic space (Fullwidth, below the threshold).
PadAlphabet == {65, 66, 20013, 65313, 65039, 8205, 127777, 9608, 12288}

\* the sequences over A of length at most n
RECURSIVE StringsUpTo(_, _)
StringsUpTo(A, n) ==
    IF n = 0 THEN {<<>>}
    ELSE LET shorter == StringsUpTo(A, n - 1)
         IN  shorter \cup {Append(s, c) : s \in shorter, c \in A}

NotCalled == [called |-> FALSE]

padIdle == content = <<>> /\ total_width = 0 /\ padded = NotCalled

PadInit ==
    /\ content \in StringsUpTo(PadAlphabet, MaxLen)
    /\ total_width \in 0..MaxWidth
    /\ padded = NotCalled

PadLine ==
    /\ padded = NotCalled
    /\ padded' = [called |-> TRUE, value |-> pad_line(content, total_width)]
    /\ UNCHANGED <<content, total_width>>

---------------------------------------------------------------------------
(* String literals (code points) used for the inputs *)

s_a_b      == <<97, 47, 98>>                          \* "a/b"
s_c_d      == <<99, 47, 100>>                         \* "c/d"
s_e_f      == <<101, 47, 102>>                        \* "e/f"
s_g_h      == <<103, 47, 104>>                        \* "g/h"
s_decoy    == <<120, 47, 100, 101, 99, 111, 121>>     \* "x/decoy"
s_url_x    == <<104, 116, 116, 112, 115, 58, 47, 47, 120>>   \* "https://x"
s_url_y    == <<104, 116, 116, 112, 115, 58, 47, 47, 121>>   \* "https://y"
s_url_h    == <<104, 116, 116, 112, 115, 58, 47, 47, 104>>   \* "https://h"
s_t2024    == <<50, 48, 50, 52, 45, 48, 49, 45, 48, 49, 84, 48, 48, 58, 48, 48, 58, 48, 48, 90>>  \* "2024-01-01T00:00:00Z"
s_t2023    == <<50, 48, 50, 51, 45, 48, 53, 45, 48, 53, 84, 49, 48, 58, 48, 48, 58, 48, 48, 90>>  \* "2023-05-05T10:00:00Z"
s_t2024b   == <<50, 48, 50, 52, 45, 48, 50, 45, 48, 50, 84, 49, 50, 58, 51, 48, 58, 48, 48, 90>>  \* "2024-02-02T12:30:00Z"
s_Go       == <<71, 111>>                             \* "Go"
s_Rust     == <<82, 117, 115, 116>>                   \* "Rust"
s_desc     == <<100>>                                 \* "d"
s_cli      == <<99, 108, 105>>                        \* "cli"
s_web      == <<119, 101, 98>>                        \* "web"
s_MIT      == <<77, 73, 84>>                          \* "MIT"
s_mit      == <<109, 105, 116>>                       \* "mit"
s_octo     == <<111, 99, 116, 111>>                   \* "octo"
s_User     == <<85, 115, 101, 114>>                   \* "User"
s_Organization == <<79, 114, 103, 97, 110, 105, 122, 97, 116, 105, 111, 110>>  \* "Organization"
\* datetime.now().isoformat(): with and without microseconds
s_now      == <<50, 48, 50, 52, 45, 48, 51, 45, 48, 49, 84, 48, 57, 58, 51, 48, 58, 48, 48>>
s_now_us   == <<50, 48, 50, 52, 45, 48, 51, 45, 48, 49, 84, 48, 57, 58, 51, 48, 58, 48, 48, 46, 49, 50, 51, 52, 53, 54>>

Clock == {s_now, s_now_us}

---------------------------------------------------------------------------
(* export_to_json: normalization of one raw entry *)

\* mutant: the entry itself is always the repository source
RepoSource_entry(item) == PyDict(item)

\* `r`: the nested object of a wrapper entry, the entry itself otherwise
RepoSource(item) ==
    IF "repo" \in DOMAIN item THEN item["repo"] ELSE PyDict(item)

StarredAt(item) ==
    IF "repo" \in DOMAIN item THEN Get(item, "starred_at") ELSE None

\* x.get(...) on a value that is no dict raises AttributeError; r[...] on a
\* value that is no dict raises TypeError, on a dict without the key KeyError.
normalize_raises(item) ==
    LET r == RepoSource(item)
    IN  \/ r.t # "dict"
        \/ "full_name" \notin DOMAIN r.v
        \/ "html_url" \notin DOMAIN r.v
        \/ GetOr(r.v, "owner", PyDict(EmptyDict)).t # "dict"
        \/ /\ Truthy(Get(r.v, "license"))
           /\ GetOr(r.v, "license", PyDict(EmptyDict)).t # "dict"

repo_data(item) ==
    LET r     == RepoSource(item).v
        owner == GetOr(r, "owner", PyDict(EmptyDict)).v
    IN  [ name        |-> r["full_name"],
          description |-> Get(r, "description"),
          url         |-> r["html_url"],
          language    |-> Get(r, "language"),
          stars       |-> GetOr(r, "stargazers_count", PyInt(0)),
          forks       |-> GetOr(r, "forks_count", PyInt(0)),
          open_issues |-> GetOr(r, "open_issues_count", PyInt(0)),
          topics      |-> GetOr(r, "topics", PyList(<<>>)),
          created_at  |-> Get(r, "created_at"),
          updated_at  |-> Get(r, "updated_at"),
          starred_at  |-> StarredAt(item),
          archived    |-> GetOr(r, "archived", PyBool(FALSE)),
          owner       |-> Get(owner, "login"),
          owner_type  |-> Get(owner, "type"),
          license     |-> IF Truthy(Get(r, "license"))
                          THEN Get(GetOr(r, "license", PyDict(EmptyDict)).v, "name")
                          ELSE None,
          homepage    |-> Get(r, "homepage") ]

\* the for loop of export_to_json: one record appended per entry
RECURSIVE normalize_from(_, _, _)
normalize_from(rs, i, acc) ==
    IF i > Len(rs) THEN acc
    ELSE normalize_from(rs, i + 1, Append(acc, repo_data(rs[i])))

export_raises(rs) == \E i \in 1..Len(rs) : normalize_raises(rs[i])

\* mutant: each record is inserted at the front
export_to_json_front(rs, now) ==
    [ exported_at  |-> now,
      total_count  |-> Len(rs),
      repositories |-> [i \in 1..Len(rs) |-> repo_data(rs[Len(rs) + 1 - i])] ]

export_to_json(rs, now) ==
    [ exported_at  |-> now,
      total_count  |-> Len(rs),
      repositories |-> normalize_from(rs, 1, <<>>) ]

NoFile == [written |-> FALSE]
NoData == [returned |-> FALSE]

---------------------------------------------------------------------------
(* Python string and formatting primitives used by print_recap *)

Min(a, b) == IF a < b THEN a ELSE b

\* s[:n]
Take(s, n) == SubSeq(s, 1, Min(n, Len(s)))

\* c * n
Repeat(c, n) == [i \in 1..n |-> c]

\* f"{s:<w}" and f"{s:>w}": padding by character count
ljust(s, w) == s \o Spaces(w - Len(s))
rjust(s, w) == Spaces(w - Len(s)) \o s

RECURSIVE digits(_)
digits(n) == IF n < 10 THEN <<48 + n>> ELSE Append(digits(n \div 10), 48 + (n % 10))

\* str(n)
str_int(n) == IF n < 0 THEN <<45>> \o digits(-n) ELSE digits(n)

RECURSIVE group3(_)
group3(ds) ==
    IF Len(ds) <= 3 THEN ds
    ELSE group3(SubSeq(ds, 1, Len(ds) - 3)) \o <<44>> \o SubSeq(ds, Len(ds) - 2, Len(ds))

\* f"{n:,}"
fmt_comma(n) == IF n < 0 THEN <<45>> \o group3(digits(-n)) ELSE group3(digits(n))

\* a < b on strings (lexicographic by code point)
StrLess(a, b) ==
    \E k \in 1..Len(b) :
        /\ \A j \in 1..(k - 1) : j <= Len(a) /\ a[j] = b[j]
        /\ (k > Len(a) \/ a[k] < b[k])

\* str.lower() (CPython 3.11, Unicode database 14.0.0).
\* Characters with a one-character lowercase form: <<first, last, step, delta>>
\* maps first, first + step, ..., last to themselves plus delta.
LowerRanges ==
    {
      <<65, 90, 1, 32>>, <<192, 214, 1, 32>>, <<216, 222, 1, 32>>, <<256, 302, 2, 1>>,
      <<306, 310, 2, 1>>, <<313, 327, 2, 1>>, <<330, 374, 2, 1>>, <<376, 376, 1, -121>>,
      <<377, 381, 2, 1>>, <<385, 385, 1, 210>>, <<386, 388, 2, 1>>, <<390, 390, 1, 206>>,
      <<391, 391, 1, 1>>, <<393, 394, 1, 205>>, <<395, 395, 1, 1>>, <<398, 398, 1, 79>>,
      <<399, 399, 1, 202>>, <<400, 400, 1, 203>>, <<401, 401, 1, 1>>, <<403, 403, 1, 205>>,
      <<404, 404, 1, 207>>, <<406, 406, 1, 211>>, <<407, 407, 1, 209>>, <<408, 408, 1, 1>>,
      <<412, 412, 1, 211>>, <<413, 413, 1, 213>>, <<415, 415, 1, 214>>, <<416, 420, 2, 1>>,
      <<422, 422, 1, 218>>, <<423, 423, 1, 1>>, <<425, 425, 1, 218>>, <<428, 428, 1, 1>>,
      <<430, 430, 1, 218>>, <<431, 431, 1, 1>>, <<433, 434, 1, 217>>, <<435, 437, 2, 1>>,
      <<439, 439, 1, 219>>, <<440, 440, 1, 1>>, <<444, 444, 1, 1>>, <<452, 452, 1, 2>>,
      <<453, 453, 1, 1>>, <<455, 455, 1, 2>>, <<456, 456, 1, 1>>, <<458, 458, 1, 2>>,
      <<459, 475, 2, 1>>, <<478, 494, 2, 1>>, <<497, 497, 1, 2>>, <<498, 500, 2, 1>>,
      <<502, 502, 1, -97>>, <<503, 503, 1, -56>>, <<504, 542, 2, 1>>, <<544, 544, 1, -130>>,
      <<546, 562, 2, 1>>, <<570, 570, 1, 10795>>, <<571, 571, 1, 1>>, <<573, 573, 1, -163>>,
      <<574, 574, 1, 10792>>, <<577, 577, 1, 1>>, <<579, 579, 1, -195>>, <<580, 580, 1, 69>>,
      <<581, 581, 1, 71>>, <<582, 590, 2, 1>>, <<880, 882, 2, 1>>, <<886, 886, 1, 1>>,
      <<895, 895, 1, 116>>, <<902, 902, 1, 38>>, <<904, 906, 1, 37>>, <<908, 908, 1, 64>>,
      <<910, 911, 1, 63>>, <<913, 929, 1, 32>>, <<931, 939, 1, 32>>, <<975, 975, 1, 8>>,
      <<984, 1006, 2, 1>>, <<1012, 1012, 1, -60>>, <<1015, 1015, 1, 1>>, <<1017, 1017, 1, -7>>,
      <<1018, 1018, 1, 1>>, <<1021, 1023, 1, -130>>, <<1024, 1039, 1, 80>>, <<1040, 1071, 1, 32>>,
      <<1120, 1152, 2, 1>>, <<1162, 1214, 2, 1>>, <<1216, 1216, 1, 15>>, <<1217, 1229, 2, 1>>,
      <<1232, 1326, 2, 1>>, <<1329, 1366, 1, 48>>, <<4256, 4293, 1, 7264>>, <<4295, 4295, 1, 7264>>,
      <<4301, 4301, 1, 7264>>, <<5024, 5103, 1, 38864>>, <<5104, 5109, 1, 8>>, <<7312, 7354, 1, -3008>>,
      <<7357, 7359, 1, -3008>>, <<7680, 7828, 2, 1>>, <<7838, 7838, 1, -7615>>, <<7840, 7934, 2, 1>>,
      <<7944, 7951, 1, -8>>, <<7960, 7965, 1, -8>>, <<7976, 7983, 1, -8>>, <<7992, 7999, 1, -8>>,
      <<8008, 8013, 1, -8>>, <<8025, 8031, 2, -8>>, <<8040, 8047, 1, -8>>, <<8072, 8079, 1, -8>>,
      <<8088, 8095, 1, -8>>, <<8104, 8111, 1, -8>>, <<8120, 8121, 1, -8>>, <<8122, 8123, 1, -74>>,
      <<8124, 8124, 1, -9>>, <<8136, 8139, 1, -86>>, <<8140, 8140, 1, -9>>, <<8152, 8153, 1, -8>>,
      <<8154, 8155, 1, -100>>, <<8168, 8169, 1, -8>>, <<8170, 8171, 1, -112>>, <<8172, 8172, 1, -7>>,
      <<8184, 8185, 1, -128>>, <<8186, 8187, 1, -126>>, <<8188, 8188, 1, -9>>, <<8486, 8486, 1, -7517>>,
      <<8490, 8490, 1, -8383>>, <<8491, 8491, 1, -8262>>, <<8498, 8498, 1, 28>>, <<8544, 8559, 1, 16>>,
      <<8579, 8579, 1, 1>>, <<9398, 9423, 1, 26>>, <<11264, 11311, 1, 48>>, <<11360, 11360, 1, 1>>,
      <<11362, 11362, 1, -10743>>, <<11363, 11363, 1, -3814>>, <<11364, 11364, 1, -10727>>, <<11367, 11371, 2, 1>>,
      <<11373, 11373, 1, -10780>>, <<11374, 11374, 1, -10749>>, <<11375, 11375, 1, -10783>>, <<11376, 11376, 1, -10782>>,
      <<11378, 11378, 1, 1>>, <<11381, 11381, 1, 1>>, <<11390, 11391, 1, -10815>>, <<11392, 11490, 2, 1>>,
      <<11499, 11501, 2, 1>>, <<11506, 11506, 1, 1>>, <<42560, 42604, 2, 1>>, <<42624, 42650, 2, 1>>,
      <<42786, 42798, 2, 1>>, <<42802, 42862, 2, 1>>, <<42873, 42875, 2, 1>>, <<42877, 42877, 1, -35332>>,
      <<42878, 42886, 2, 1>>, <<42891, 42891, 1, 1>>, <<42893, 42893, 1, -42280>>, <<42896, 42898, 2, 1>>,
      <<42902, 42920, 2, 1>>, <<42922, 42922, 1, -42308>>, <<42923, 42923, 1, -42319>>, <<42924, 42924, 1, -42315>>,
      <<42925, 42925, 1, -42305>>, <<42926, 42926, 1, -42308>>, <<42928, 42928, 1, -42258>>, <<42929, 42929, 1, -42282>>,
      <<42930, 42930, 1, -42261>>, <<42931, 42931, 1, 928>>, <<42932, 42946, 2, 1>>, <<42948, 42948, 1, -48>>,
      <<42949, 42949, 1, -42307>>, <<42950, 42950, 1, -35384>>, <<42951, 42953, 2, 1>>, <<42960, 42960, 1, 1>>,
      <<42966, 42968, 2, 1>>, <<42997, 42997, 1, 1>>, <<65313, 65338, 1, 32>>, <<66560, 66599, 1, 40>>,
      <<66736, 66771, 1, 40>>, <<66928, 66938, 1, 39>>, <<66940, 66954, 1, 39>>, <<66956, 66962, 1, 39>>,
      <<66964, 66965, 1, 39>>, <<68736, 68786, 1, 64>>, <<71840, 71871, 1, 32>>, <<93760, 93791, 1, 32>>,
      <<125184, 125217, 1, 34>> }

\* Case-ignorable characters (skipped on both sides of a capital sigma).
CaseIgnorableRanges ==
    {
      <<39, 39>>, <<46, 46>>, <<58, 58>>, <<94, 94>>, <<96, 96>>,
      <<168, 168>>, <<173, 173>>, <<175, 175>>, <<180, 180>>, <<183, 184>>,
      <<688, 879>>, <<884, 885>>, <<890, 890>>, <<900, 901>>, <<903, 903>>,
      <<1155, 1161>>, <<1369, 1369>>, <<1375, 1375>>, <<1425, 1469>>, <<1471, 1471>>,
      <<1473, 1474>>, <<1476, 1477>>, <<1479, 1479>>, <<1524, 1524>>, <<1536, 1541>>,
      <<1552, 1562>>, <<1564, 1564>>, <<1600, 1600>>, <<1611, 1631>>, <<1648, 1648>>,
      <<1750, 1757>>, <<1759, 1768>>, <<1770, 1773>>, <<1807, 1807>>, <<1809, 1809>>,
      <<1840, 1866>>, <<1958, 1968>>, <<2027, 2037>>, <<2042, 2042>>, <<2045, 2045>>,
      <<2070, 2093>>, <<2137, 2139>>, <<2184, 2184>>, <<2192, 2193>>, <<2200, 2207>>,
      <<2249, 2306>>, <<2362, 2362>>, <<2364, 2364>>, <<2369, 2376>>, <<2381, 2381>>,
      <<2385, 2391>>, <<2402, 2403>>, <<2417, 2417>>, <<2433, 2433>>, <<2492, 2492>>,
      <<2497, 2500>>, <<2509, 2509>>, <<2530, 2531>>, <<2558, 2558>>, <<2561, 2562>>,
      <<2620, 2620>>, <<2625, 2626>>, <<2631, 2632>>, <<2635, 2637>>, <<2641, 2641>>,
      <<2672, 2673>>, <<2677, 2677>>, <<2689, 2690>>, <<2748, 2748>>, <<2753, 2757>>,
      <<2759, 2760>>, <<2765, 2765>>, <<2786, 2787>>, <<2810, 2815>>, <<2817, 2817>>,
      <<2876, 2876>>, <<2879, 2879>>, <<2881, 2884>>, <<2893, 2893>>, <<2901, 2902>>,
      <<2914, 2915>>, <<2946, 2946>>, <<3008, 3008>>, <<3021, 3021>>, <<3072, 3072>>,
      <<3076, 3076>>, <<3132, 3132>>, <<3134, 3136>>, <<3142, 3144>>, <<3146, 3149>>,
      <<3157, 3158>>, <<3170, 3171>>, <<3201, 3201>>, <<3260, 3260>>, <<3263, 3263>>,
      <<3270, 3270>>, <<3276, 3277>>, <<3298, 3299>>, <<3328, 3329>>, <<3387, 3388>>,
      <<3393, 3396>>, <<3405, 3405>>, <<3426, 3427>>, <<3457, 3457>>, <<3530, 3530>>,
      <<3538, 3540>>, <<3542, 3542>>, <<3633, 3633>>, <<3636, 3642>>, <<3654, 3662>>,
      <<3761, 3761>>, <<3764, 3772>>, <<3782, 3782>>, <<3784, 3789>>, <<3864, 3865>>,
      <<3893, 3893>>, <<3895, 3895>>, <<3897, 3897>>, <<3953, 3966>>, <<3968, 3972>>,
      <<3974, 3975>>, <<3981, 3991>>, <<3993, 4028>>, <<4038, 4038>>, <<4141, 4144>>,
      <<4146, 4151>>, <<4153, 4154>>, <<4157, 4158>>, <<4184, 4185>>, <<4190, 4192>>,
      <<4209, 4212>>, <<4226, 4226>>, <<4229, 4230>>, <<4237, 4237>>, <<4253, 4253>>,
      <<4348, 4348>>, <<4957, 4959>>, <<5906, 5908>>, <<5938, 5939>>, <<5970, 5971>>,
      <<6002, 6003>>, <<6068, 6069>>, <<6071, 6077>>, <<6086, 6086>>, <<6089, 6099>>,
      <<6103, 6103>>, <<6109, 6109>>, <<6155, 6159>>, <<6211, 6211>>, <<6277, 6278>>,
      <<6313, 6313>>, <<6432, 6434>>, <<6439, 6440>>, <<6450, 6450>>, <<6457, 6459>>,
      <<6679, 6680>>, <<6683, 6683>>, <<6742, 6742>>, <<6744, 6750>>, <<6752, 6752>>,
      <<6754, 6754>>, <<6757, 6764>>, <<6771, 6780>>, <<6783, 6783>>, <<6823, 6823>>,
      <<6832, 6862>>, <<6912, 6915>>, <<6964, 6964>>, <<6966, 6970>>, <<6972, 6972>>,
      <<6978, 6978>>, <<7019, 7027>>, <<7040, 7041>>, <<7074, 7077>>, <<7080, 7081>>,
      <<7083, 7085>>, <<7142, 7142>>, <<7144, 7145>>, <<7149, 7149>>, <<7151, 7153>>,
      <<7212, 7219>>, <<7222, 7223>>, <<7288, 7293>>, <<7376, 7378>>, <<7380, 7392>>,
      <<7394, 7400>>, <<7405, 7405>>, <<7412, 7412>>, <<7416, 7417>>, <<7468, 7530>>,
      <<7544, 7544>>, <<7579, 7679>>, <<8125, 8125>>, <<8127, 8129>>, <<8141, 8143>>,
      <<8157, 8159>>, <<8173, 8175>>, <<8189, 8190>>, <<8203, 8207>>, <<8216, 8217>>,
      <<8228, 8228>>, <<8231, 8231>>, <<8234, 8238>>, <<8288, 8292>>, <<8294, 8303>>,
      <<8305, 8305>>, <<8319, 8319>>, <<8336, 8348>>, <<8400, 8432>>, <<11388, 11389>>,
      <<11503, 11505>>, <<11631, 11631>>, <<11647, 11647>>, <<11744, 11775>>, <<11823, 11823>>,
      <<12293, 12293>>, <<12330, 12333>>, <<12337, 12341>>, <<12347, 12347>>, <<12441, 12446>>,
      <<12540, 12542>>, <<40981, 40981>>, <<42232, 42237>>, <<42508, 42508>>, <<42607, 42610>>,
      <<42612, 42621>>, <<42623, 42623>>, <<42652, 42655>>, <<42736, 42737>>, <<42752, 42785>>,
      <<42864, 42864>>, <<42888, 42890>>, <<42994, 42996>>, <<43000, 43001>>, <<43010, 43010>>,
      <<43014, 43014>>, <<43019, 43019>>, <<43045, 43046>>, <<43052, 43052>>, <<43204, 43205>>,
      <<43232, 43249>>, <<43263, 43263>>, <<43302, 43309>>, <<43335, 43345>>, <<43392, 43394>>,
      <<43443, 43443>>, <<43446, 43449>>, <<43452, 43453>>, <<43471, 43471>>, <<43493, 43494>>,
      <<43561, 43566>>, <<43569, 43570>>, <<43573, 43574>>, <<43587, 43587>>, <<43596, 43596>>,
      <<43632, 43632>>, <<43644, 43644>>, <<43696, 43696>>, <<43698, 43700>>, <<43703, 43704>>,
      <<43710, 43711>>, <<43713, 43713>>, <<43741, 43741>>, <<43756, 43757>>, <<43763, 43764>>,
      <<43766, 43766>>, <<43867, 43871>>, <<43881, 43883>>, <<44005, 44005>>, <<44008, 44008>>,
      <<44013, 44013>>, <<64286, 64286>>, <<64434, 64450>>, <<65024, 65039>>, <<65043, 65043>>,
      <<65056, 65071>>, <<65106, 65106>>, <<65109, 65109>>, <<65279, 65279>>, <<65287, 65287>>,
      <<65294, 65294>>, <<65306, 65306>>, <<65342, 65342>>, <<65344, 65344>>, <<65392, 65392>>,
      <<65438, 65439>>, <<65507, 65507>>, <<65529, 65531>>, <<66045, 66045>>, <<66272, 66272>>,
      <<66422, 66426>>, <<67456, 67461>>, <<67463, 67504>>, <<67506, 67514>>, <<68097, 68099>>,
      <<68101, 68102>>, <<68108, 68111>>, <<68152, 68154>>, <<68159, 68159>>, <<68325, 68326>>,
      <<68900, 68903>>, <<69291, 69292>>, <<69446, 69456>>, <<69506, 69509>>, <<69633, 69633>>,
      <<69688, 69702>>, <<69744, 69744>>, <<69747, 69748>>, <<69759, 69761>>, <<69811, 69814>>,
      <<69817, 69818>>, <<69821, 69821>>, <<69826, 69826>>, <<69837, 69837>>, <<69888, 69890>>,
      <<69927, 69931>>, <<69933, 69940>>, <<70003, 70003>>, <<70016, 70017>>, <<70070, 70078>>,
      <<70089, 70092>>, <<70095, 70095>>, <<70191, 70193>>, <<70196, 70196>>, <<70198, 70199>>,
      <<70206, 70206>>, <<70367, 70367>>, <<70371, 70378>>, <<70400, 70401>>, <<70459, 70460>>,
      <<70464, 70464>>, <<70502, 70508>>, <<70512, 70516>>, <<70712, 70719>>, <<70722, 70724>>,
      <<70726, 70726>>, <<70750, 70750>>, <<70835, 70840>>, <<70842, 70842>>, <<70847, 70848>>,
      <<70850, 70851>>, <<71090, 71093>>, <<71100, 71101>>, <<71103, 71104>>, <<71132, 71133>>,
      <<71219, 71226>>, <<71229, 71229>>, <<71231, 71232>>, <<71339, 71339>>, <<71341, 71341>>,
      <<71344, 71349>>, <<71351, 71351>>, <<71453, 71455>>, <<71458, 71461>>, <<71463, 71467>>,
      <<71727, 71735>>, <<71737, 71738>>, <<71995, 71996>>, <<71998, 71998>>, <<72003, 72003>>,
      <<72148, 72151>>, <<72154, 72155>>, <<72160, 72160>>, <<72193, 72202>>, <<72243, 72248>>,
      <<72251, 72254>>, <<72263, 72263>>, <<72273, 72278>>, <<72281, 72283>>, <<72330, 72342>>,
      <<72344, 72345>>, <<72752, 72758>>, <<72760, 72765>>, <<72767, 72767>>, <<72850, 72871>>,
      <<72874, 72880>>, <<72882, 72883>>, <<72885, 72886>>, <<73009, 73014>>, <<73018, 73018>>,
      <<73020, 73021>>, <<73023, 73029>>, <<73031, 73031>>, <<73104, 73105>>, <<73109, 73109>>,
      <<73111, 73111>>, <<73459, 73460>>, <<78896, 78904>>, <<92912, 92916>>, <<92976, 92982>>,
      <<92992, 92995>>, <<94031, 94031>>, <<94095, 94111>>, <<94176, 94177>>, <<94179, 94180>>,
      <<110576, 110579>>, <<110581, 110587>>, <<110589, 110590>>, <<113821, 113822>>, <<113824, 113827>>,
      <<118528, 118573>>, <<118576, 118598>>, <<119143, 119145>>, <<119155, 119170>>, <<119173, 119179>>,
      <<119210, 119213>>, <<119362, 119364>>, <<121344, 121398>>, <<121403, 121452>>, <<121461, 121461>>,
      <<121476, 121476>>, <<121499, 121503>>, <<121505, 121519>>, <<122880, 122886>>, <<122888, 122904>>,
      <<122907, 122913>>, <<122915, 122916>>, <<122918, 122922>>, <<123184, 123197>>, <<123566, 123566>>,
      <<123628, 123631>>, <<125136, 125142>>, <<125252, 125259>>, <<127995, 127999>>, <<917505, 917505>>,
      <<917536, 917631>>, <<917760, 917999>> }

\* Cased characters, as far as str.lower() consults them: those that are not
\* case-ignorable.
CasedRanges ==
    {
      <<65, 90>>, <<97, 122>>, <<170, 170>>, <<181, 181>>, <<186, 186>>,
      <<192, 214>>, <<216, 246>>, <<248, 442>>, <<444, 447>>, <<452, 659>>,
      <<661, 687>>, <<880, 883>>, <<886, 887>>, <<891, 893>>, <<895, 895>>,
      <<902, 902>>, <<904, 906>>, <<908, 908>>, <<910, 929>>, <<931, 1013>>,
      <<1015, 1153>>, <<1162, 1327>>, <<1329, 1366>>, <<1376, 1416>>, <<4256, 4293>>,
      <<4295, 4295>>, <<4301, 4301>>, <<4304, 4346>>, <<4349, 4351>>, <<5024, 5109>>,
      <<5112, 5117>>, <<7296, 7304>>, <<7312, 7354>>, <<7357, 7359>>, <<7424, 7467>>,
      <<7531, 7543>>, <<7545, 7578>>, <<7680, 7957>>, <<7960, 7965>>, <<7968, 8005>>,
      <<8008, 8013>>, <<8016, 8023>>, <<8025, 8025>>, <<8027, 8027>>, <<8029, 8029>>,
      <<8031, 8061>>, <<8064, 8116>>, <<8118, 8124>>, <<8126, 8126>>, <<8130, 8132>>,
      <<8134, 8140>>, <<8144, 8147>>, <<8150, 8155>>, <<8160, 8172>>, <<8178, 8180>>,
      <<8182, 8188>>, <<8450, 8450>>, <<8455, 8455>>, <<8458, 8467>>, <<8469, 8469>>,
      <<8473, 8477>>, <<8484, 8484>>, <<8486, 8486>>, <<8488, 8488>>, <<8490, 8493>>,
      <<8495, 8500>>, <<8505, 8505>>, <<8508, 8511>>, <<8517, 8521>>, <<8526, 8526>>,
      <<8544, 8575>>, <<8579, 8580>>, <<9398, 9449>>, <<11264, 11387>>, <<11390, 11492>>,
      <<11499, 11502>>, <<11506, 11507>>, <<11520, 11557>>, <<11559, 11559>>, <<11565, 11565>>,
      <<42560, 42605>>, <<42624, 42651>>, <<42786, 42863>>, <<42865, 42887>>, <<42891, 42894>>,
      <<42896, 42954>>, <<42960, 42961>>, <<42963, 42963>>, <<42965, 42969>>, <<42997, 42998>>,
      <<43002, 43002>>, <<43824, 43866>>, <<43872, 43880>>, <<43888, 43967>>, <<64256, 64262>>,
      <<64275, 64279>>, <<65313, 65338>>, <<65345, 65370>>, <<66560, 66639>>, <<66736, 66771>>,
      <<66776, 66811>>, <<66928, 66938>>, <<66940, 66954>>, <<66956, 66962>>, <<66964, 66965>>,
      <<66967, 66977>>, <<66979, 66993>>, <<66995, 67001>>, <<67003, 67004>>, <<68736, 68786>>,
      <<68800, 68850>>, <<71840, 71903>>, <<93760, 93823>>, <<119808, 119892>>, <<119894, 119964>>,
      <<119966, 119967>>, <<119970, 119970>>, <<119973, 119974>>, <<119977, 119980>>, <<119982, 119993>>,
      <<119995, 119995>>, <<119997, 120003>>, <<120005, 120069>>, <<120071, 120074>>, <<120077, 120084>>,
      <<120086, 120092>>, <<120094, 120121>>, <<120123, 120126>>, <<120128, 120132>>, <<120134, 120134>>,
      <<120138, 120144>>, <<120146, 120485>>, <<120488, 120512>>, <<120514, 120538>>, <<120540, 120570>>,
      <<120572, 120596>>, <<120598, 120628>>, <<120630, 120654>>, <<120656, 120686>>, <<120688, 120712>>,
      <<120714, 120744>>, <<120746, 120770>>, <<120772, 120779>>, <<122624, 122633>>, <<122635, 122654>>,
      <<125184, 125251>>, <<127280, 127305>>, <<127312, 127337>>, <<127344, 127369>> }

\* The capital sigma at position i is final: the nearest character before it
\* that is not case-ignorable exists and is cased, and the nearest one after
\* it, if any, is not cased.
final_sigma(s, i) ==
    LET ignorable(c) == \E r \in CaseIgnorableRanges : r[1] <= c /\ c <= r[2]
        cased(c)     == \E r \in CasedRanges : r[1] <= c /\ c <= r[2]
        before == {j \in 1..(i - 1) : ~ignorable(s[j])}
        after  == {j \in (i + 1)..Len(s) : ~ignorable(s[j])}
        last   == CHOOSE j \in before : \A k \in before : k <= j
        first  == CHOOSE j \in after : \A k \in after : j <= k
    IN  /\ before # {}
        /\ cased(s[last])
        /\ (after = {} \/ ~cased(s[first]))

\* The lowercase form of the character at position i: U+0130 becomes two
\* characters, U+03A3 depends on its position, the others follow LowerRanges.
lower_char(s, i) ==
    LET c == s[i]
        hits == {r \in LowerRanges : r[1] <= c /\ c <= r[2] /\ (c - r[1]) % r[3] = 0}
    IN  IF c = 304 THEN <<105, 775>>
        ELSE IF c = 931 THEN <<IF final_sigma(s, i) THEN 962 ELSE 963>>
        ELSE IF hits # {} THEN <<c + (CHOOSE r \in hits : TRUE)[4]>>
        ELSE <<c>>

RECURSIVE lower_from(_, _)
lower_from(s, i) == IF i > Len(s) THEN <<>> ELSE lower_char(s, i) \o lower_from(s, i + 1)

lower(s) == lower_from(s, 1)

\* the pairs of indices of xs
Pairs(xs) == (1..Len(xs)) \X (1..Len(xs))

\* sorted(): stable; `before` holds the pairs <<i, j>> of indices such that
\* the element at i sorts strictly before the element at j
SortedBy(xs, before) ==
    LET n == Len(xs)
        rank(i) == 1 + Cardinality({j \in 1..n : <<j, i>> \in before
                                                  \/ (<<i, j>> \notin before /\ j < i)})
    IN  [p \in 1..n |-> xs[CHOOSE i \in 1..n : rank(i) = p]]

\* Counter(keys): (key, count) pairs in first-seen order
RECURSIVE count_from(_, _, _)
count_from(keys, i, acc) ==
    IF i > Len(keys) THEN acc
    ELSE LET k == keys[i]
         IN  IF \E j \in 1..Len(acc) : acc[j].key = k
             THEN count_from(keys, i + 1,
                      [j \in 1..Len(acc) |->
                          IF acc[j].key = k
                          THEN [key |-> k, count |-> acc[j].count + 1]
                          ELSE acc[j]])
             ELSE count_from(keys, i + 1, Append(acc, [key |-> k, count |-> 1]))

Counter(keys) == count_from(keys, 1, <<>>)

\* Counter.most_common(n): by count, descending, ties in first-seen order
most_common(c, n) ==
    Take(SortedBy(c, {q \in Pairs(c) : c[q[1]].count > c[q[2]].count}), n)

\* the terminal lines print(s) produces: s split at "\n"
print(s) ==
    LET nl       == {i \in 1..Len(s) : s[i] = 10}
        nth(k)   == CHOOSE p \in nl : Cardinality({q \in nl : q < p}) = k - 1
        first(k) == IF k = 1 THEN 1 ELSE nth(k - 1) + 1
        last(k)  == IF k = Cardinality(nl) + 1 THEN Len(s) ELSE nth(k) - 1
    IN  [k \in 1..(Cardinality(nl) + 1) |-> SubSeq(s, first(k), last(k))]

---------------------------------------------------------------------------
(* print_recap *)

t_header       == <<32, 32, 11088, 32, 71, 73, 84, 72, 85, 66, 32, 83, 84, 65, 82, 82, 69, 68, 32, 82, 69, 80, 79, 83, 32, 82, 69, 67, 65, 80>>
t_total        == <<32, 32, 84, 111, 116, 97, 108, 58, 32>>                       \* "  Total: "
t_repositories == <<32, 114, 101, 112, 111, 115, 105, 116, 111, 114, 105, 101, 115>>  \* " repositories"
t_exported     == <<32, 32, 69, 120, 112, 111, 114, 116, 101, 100, 58, 32>>       \* "  Exported: "
t_languages    == <<32, 32, 128202, 32, 84, 79, 80, 32, 76, 65, 78, 71, 85, 65, 71, 69, 83>>
t_popular      == <<32, 32, 128293, 32, 77, 79, 83, 84, 32, 80, 79, 80, 85, 76, 65, 82, 32, 82, 69, 80, 79, 83, 32, 89, 79, 85, 39, 86, 69, 32, 83, 84, 65, 82, 82, 69, 68>>
t_recent       == <<32, 32, 128336, 32, 82, 69, 67, 69, 78, 84, 76, 89, 32, 85, 80, 68, 65, 84, 69, 68>>
t_topics       == <<32, 32, 128278, 32, 84, 79, 80, 32, 84, 79, 80, 73, 67, 83>>
t_stats        == <<32, 32, 128200, 32, 81, 85, 73, 67, 75, 32, 83, 84, 65, 84, 83>>
t_orgs         == <<32, 32, 128101, 32, 79, 114, 103, 97, 110, 105, 122, 97, 116, 105, 111, 110, 115, 58, 32>>
t_users        == <<32, 32, 128100, 32, 85, 115, 101, 114, 115, 58, 32>>
t_archived     == <<32, 32, 128230, 32, 65, 114, 99, 104, 105, 118, 101, 100, 58, 32>>
t_nlangs       == <<32, 32, 128187, 32, 76, 97, 110, 103, 117, 97, 103, 101, 115, 58, 32>>
t_ntopics      == <<32, 32, 128278, 32, 84, 111, 112, 105, 99, 115, 58, 32>>
t_all          == <<32, 32, 128203, 32, 65, 76, 76, 32, 83, 84, 65, 82, 82, 69, 68, 32, 82, 69, 80, 79, 83>>
t_folder       == <<32, 32, 128193, 32>>                      \* "  (folder) "
t_star         == <<32, 11088, 32>>                           \* " (star) "
t_indent       == <<32, 32, 32, 32, 32>>
t_ellipsis     == <<46, 46, 46>>
t_lstar        == <<32, 32, 32, 32, 32, 11088, 32>>
t_fork         == <<32, 32, 127860, 32>>
t_laptop       == <<32, 32, 128187, 32>>
t_NA           == <<78, 47, 65>>                              \* "N/A"
t_ARCHIVED     == <<32, 32, 128230, 32, 65, 82, 67, 72, 73, 86, 69, 68>>
t_link         == <<32, 32, 32, 32, 32, 128279, 32>>
t_ftotal       == <<11088, 32, 84, 111, 116, 97, 108, 58, 32>>
t_starred      == <<32, 115, 116, 97, 114, 114, 101, 100, 32, 114, 101, 112, 111, 115, 105, 116, 111, 114, 105, 101, 115>>

\* what a run of statements printed, and whether it ended by raising
Printed(ls)  == [lines |-> ls, raised |-> FALSE]
Raised       == [lines |-> <<>>, raised |-> TRUE]
Then(a, b)   == IF a.raised THEN a
                ELSE [lines |-> a.lines \o b.lines, raised |-> b.raised]

\* print("+" + ch * w + "+"), with a leading "\n" where the code has one
border(ch, w)    == print(<<43>> \o Repeat(ch, w) \o <<43>>)
nl_border(ch, w) == print(<<10, 43>> \o Repeat(ch, w) \o <<43>>)
\* print("|" + pad_line(text, w) + "|")
panel_line(text, w) == print(<<124>> \o pad_line(text, w) \o <<124>>)

\* x or "" for a str-or-None value
or_empty(x) == IF Truthy(x) THEN x.v ELSE <<>>

header_panel(data) ==
    Printed(  print(<<10>>)
           \o border(61, 70)
           \o panel_line(t_header, 70)
           \o border(61, 70)
           \o panel_line(t_total \o str_int(Len(data.repositories)) \o t_repositories, 70)
           \o panel_line(t_exported \o Take(data.exported_at, 19), 70)
           \o border(61, 70))

\* Counter(r["language"] for r in repos if r["language"])
RECURSIVE language_keys(_, _)
language_keys(rs, i) ==
    IF i > Len(rs) THEN <<>>
    ELSE (IF Truthy(rs[i].language) THEN <<rs[i].language.v>> ELSE <<>>)
         \o language_keys(rs, i + 1)

\* mutant: only null languages are left out
language_counter_nonnull(rs) ==
    LET kept == SelectSeq([i \in 1..Len(rs) |-> rs[i].language], LAMBDA l : l # None)
    IN  Counter([i \in 1..Len(kept) |-> kept[i].v])

language_counter(rs) == Counter(language_keys(rs, 1))

languages_panel(rs) ==
    LET top == most_common(language_counter(rs), 10)
        row(e) == panel_line(<<32, 32>> \o e.key \o <<58, 32>> \o str_int(e.count)
                             \o <<32>> \o Repeat(9608, Min(e.count, 20)), 50)
        RECURSIVE rows(_)
        rows(i) == IF i > Len(top) THEN <<>> ELSE row(top[i]) \o rows(i + 1)
    IN  Printed(  nl_border(45, 50)
               \o panel_line(t_languages, 50)
               \o border(45, 50)
               \o rows(1)
               \o border(45, 50))

popular_panel(rs) ==
    LET key(i) == IF rs[i].stars.t = "int" THEN rs[i].stars.v ELSE 0
        by_stars == Take(SortedBy(rs, {q \in Pairs(rs) : key(q[1]) > key(q[2])}), 10)
        row(r) == IF r.stars.t # "int" THEN Raised
                  ELSE Printed(panel_line(<<32, 32>> \o ljust(Take(r.name.v, 45), 45)
                                          \o t_star \o rjust(fmt_comma(r.stars.v), 10), 70))
        RECURSIVE rows(_)
        rows(i) == IF i > Len(by_stars) THEN Printed(<<>>)
                   ELSE Then(row(by_stars[i]), rows(i + 1))
    IN  \* sorted() compares the keys: None is not orderable
        IF Len(rs) >= 2 /\ \E i \in 1..Len(rs) : rs[i].stars.t # "int" THEN Raised
        ELSE Then(Printed(  nl_border(45, 70)
                         \o panel_line(t_popular, 70)
                         \o border(45, 70)),
             Then(rows(1), Printed(border(45, 70))))

recent_panel(rs) ==
    LET key(i) == or_empty(rs[i].updated_at)
        by_updated == Take(SortedBy(rs, {q \in Pairs(rs) : StrLess(key(q[2]), key(q[1]))}), 10)
        row(r) == panel_line(<<32, 32>> \o ljust(Take(r.name.v, 55), 55) \o <<32>>
                             \o Take(or_empty(r.updated_at), 10), 70)
        RECURSIVE rows(_)
        rows(i) == IF i > Len(by_updated) THEN <<>> ELSE row(by_updated[i]) \o rows(i + 1)
    IN  Printed(  nl_border(45, 70)
               \o panel_line(t_recent, 70)
               \o border(45, 70)
               \o rows(1)
               \o border(45, 70))

\* all_topics.extend(r.get("topics") or [])
RECURSIVE all_topics(_, _)
all_topics(rs, i) ==
    IF i > Len(rs) THEN <<>>
    ELSE (IF Truthy(rs[i].topics) THEN rs[i].topics.v ELSE <<>>) \o all_topics(rs, i + 1)

topic_counter(rs) == Counter(all_topics(rs, 1))

topics_panel(rs) ==
    LET topics == topic_counter(rs)
        top == most_common(topics, 15)
        row(e) == panel_line(<<32, 32>> \o e.key \o <<58, 32>> \o str_int(e.count), 50)
        RECURSIVE rows(_)
        rows(i) == IF i > Len(top) THEN <<>> ELSE row(top[i]) \o rows(i + 1)
    IN  IF Len(topics) = 0 THEN Printed(<<>>)
        ELSE Printed(  nl_border(45, 50)
                    \o panel_line(t_topics, 50)
                    \o border(45, 50)
                    \o rows(1)
                    \o border(45, 50))

stats_panel(rs) ==
    LET archived == Cardinality({i \in 1..Len(rs) : Truthy(rs[i].archived)})
        orgs     == Cardinality({i \in 1..Len(rs) : rs[i].owner_type = PyStr(s_Organization)})
        users    == Len(rs) - orgs
    IN  Printed(  nl_border(45, 40)
               \o panel_line(t_stats, 40)
               \o border(45, 40)
               \o panel_line(t_orgs \o str_int(orgs), 40)
               \o panel_line(t_users \o str_int(users), 40)
               \o panel_line(t_archived \o str_int(archived), 40)
               \o panel_line(t_nlangs \o str_int(Len(language_counter(rs))), 40)
               \o panel_line(t_ntopics \o str_int(Len(topic_counter(rs))), 40)
               \o border(45, 40))

listing_title ==
    Printed(  print(<<10>>)
           \o border(61, 78)
           \o panel_line(t_all, 78)
           \o border(61, 78))

listing(rs) ==
    LET sorted == SortedBy(rs, {q \in Pairs(rs) : StrLess(lower(rs[q[1]].name.v), lower(rs[q[2]].name.v))})
        desc(r) == IF Truthy(r.description)
                   THEN print(t_indent \o Take(r.description.v, 74)
                              \o (IF Len(r.description.v) > 74 THEN t_ellipsis ELSE <<>>))
                   ELSE <<>>
        stats(r) == t_lstar \o fmt_comma(r.stars.v) \o t_fork \o fmt_comma(r.forks.v)
                    \o t_laptop \o (IF Truthy(r.language) THEN r.language.v ELSE t_NA)
                    \o (IF Truthy(r.archived) THEN t_ARCHIVED ELSE <<>>)
        entry(r) == Then(Printed(print(<<>>) \o print(t_folder \o r.name.v) \o desc(r)),
                         IF r.stars.t # "int" \/ r.forks.t # "int" THEN Raised
                         ELSE Printed(print(stats(r)) \o print(t_link \o r.url.v)))
        RECURSIVE entries(_)
        entries(i) == IF i > Len(sorted) THEN Printed(<<>>)
                      ELSE Then(entry(sorted[i]), entries(i + 1))
    IN  entries(1)

footer(rs) ==
    Printed(  print(<<10>> \o Repeat(45, 78))
           \o print(t_ftotal \o str_int(Len(rs)) \o t_starred)
           \o print(Repeat(45, 78)))

print_recap(data) ==
    LET rs == data.repositories
    IN  Then(header_panel(data),
        Then(languages_panel(rs),
        Then(popular_panel(rs),
        Then(recent_panel(rs),
        Then(topics_panel(rs),
        Then(stats_panel(rs),
        Then(listing_title,
        Then(listing(rs),
             footer(rs)))))))))

---------------------------------------------------------------------------
(* main(): get_starred_repos -> export_to_json -> print_recap *)

MaxStars == 3       \* the server holds at most this many starred entries

HTTP_OK == 200
Statuses == {HTTP_OK, 403, 500}

\* mutant: only server errors raise
raise_for_status_5xx(resp) == 500 <= resp.status /\ resp.status < 600

\* response.raise_for_status() raises for 4xx and 5xx
raise_for_status(resp) == 400 <= resp.status /\ resp.status < 600

NoResponse == [status |-> 0, body |-> <<>>]

\* the spec's wrapper example, its bare example, a bare entry whose owner
\* is null and a wrapper entry whose star count is null
WrapperExample ==
    [ repo |-> PyDict([full_name |-> PyStr(s_a_b), html_url |-> PyStr(s_url_x),
                       stargazers_count |-> PyInt(5)]),
      starred_at |-> PyStr(s_t2024) ]
BareExample == [full_name |-> PyStr(s_c_d), html_url |-> PyStr(s_url_y)]
OwnerNullEntry ==
    [full_name |-> PyStr(s_e_f), html_url |-> PyStr(s_url_x), owner |-> None]
StarsNullEntry ==
    [ repo |-> PyDict([full_name |-> PyStr(s_g_h), html_url |-> PyStr(s_url_y),
                       stargazers_count |-> None]),
      starred_at |-> PyStr(s_t2023) ]

PagePool == {WrapperExample, BareExample, OwnerNullEntry, StarsNullEntry}

pipeIdle ==
    /\ pc = "idle" /\ page = 1 /\ repos = <<>> /\ response = NoResponse
    /\ requested = <<>> /\ served = <<>>
    /\ snapshot_file = NoFile /\ export_data = NoData /\ out = <<>>

MainInit ==
    /\ pc = "request" /\ page = 1 /\ repos = <<>> /\ response = NoResponse
    /\ requested = <<>> /\ served = <<>>
    /\ snapshot_file = NoFile /\ export_data = NoData /\ out = <<>>

\* requests.get(url, headers, params={"page": page, ...}) returns a response
GetPage ==
    /\ pc = "request"
    /\ \E status \in Statuses, body \in StringsUpTo(PagePool, MaxStars - Len(repos)) :
          /\ status # HTTP_OK => body = <<>>
          /\ response' = [status |-> status, body |-> body]
    /\ requested' = Append(requested, page)
    /\ pc' = "respond"
    /\ UNCHANGED <<page, repos, served, snapshot_file, export_data, out>>
    /\ UNCHANGED <<padVars, updVars>>

\* mutant: `page += 1` is missing
HandleResponse_SamePage ==
    /\ pc = "respond"
    /\ served' = Append(served, response)
    /\ response' = NoResponse
    /\ IF raise_for_status(response)
       THEN pc' = "crashed" /\ UNCHANGED <<page, repos>>
       ELSE IF Len(response.body) = 0
       THEN pc' = "export" /\ UNCHANGED <<page, repos>>
       ELSE /\ repos' = repos \o response.body
            /\ page' = page
            /\ pc' = "request"
    /\ UNCHANGED <<requested, snapshot_file, export_data, out>>
    /\ UNCHANGED <<padVars, updVars>>

\* raise_for_status(); data = response.json(); break / extend and next page
HandleResponse ==
    /\ pc = "respond"
    /\ served' = Append(served, response)
    /\ response' = NoResponse
    /\ IF raise_for_status(response)
       THEN pc' = "crashed" /\ UNCHANGED <<page, repos>>
       ELSE IF Len(response.body) = 0
       THEN pc' = "export" /\ UNCHANGED <<page, repos>>
       ELSE /\ repos' = repos \o response.body
            /\ page' = page + 1
            /\ pc' = "request"
    /\ UNCHANGED <<requested, snapshot_file, export_data, out>>
    /\ UNCHANGED <<padVars, updVars>>

\* export_data = export_to_json(repos, OUTPUT_JSON)
Export ==
    /\ pc = "export"
    /\ IF export_raises(repos)
       THEN pc' = "crashed" /\ UNCHANGED <<snapshot_file, export_data>>
       ELSE \E now \in Clock :
              LET doc == export_to_json(repos, now)
              IN  /\ snapshot_file' = [written |-> TRUE, doc |-> doc]
                  /\ export_data' = [returned |-> TRUE, doc |-> doc]
                  /\ pc' = "recap"
    /\ UNCHANGED <<page, repos, response, requested, served, out>>
    /\ UNCHANGED <<padVars, updVars>>

\* print_recap(export_data)
Recap ==
    /\ pc = "recap"
    /\ LET p == print_recap(export_data.doc)
       IN  /\ out' = p.lines
           /\ pc' = IF p.raised THEN "crashed" ELSE "done"
    /\ UNCHANGED <<page, repos, response, requested, served, snapshot_file, export_data>>
    /\ UNCHANGED <<padVars, updVars>>

updIdle ==
    /\ upc = "idle" /\ local_models = <<>> /\ remote_models = [fetched |-> FALSE]
    /\ updates = {} /\ pending = {} /\ pulled = <<>> /\ log = <<>>

Init == MainInit /\ padIdle /\ updIdle

Next == GetPage \/ HandleResponse \/ Export \/ Recap

Spec == Init /\ [][Next]_vars

\* the single thread keeps running: once requests.get has returned, the
\* response is handled
FairSpec == Spec /\ WF_vars(HandleResponse)

---------------------------------------------------------------------------
(* pad_line on its own *)

InitPad == pipeIdle /\ PadInit /\ updIdle

NextPad == PadLine /\ UNCHANGED <<pipeVars, updVars>>

SpecPad == InitPad /\ [][NextPad]_vars

---------------------------------------------------------------------------
(* export_to_json on one raw entry of every shape *)

MaxFields == 2      \* optional keys present in a generated repository object

OptKeys ==
    { "description", "language", "stargazers_count", "forks_count",
      "open_issues_count", "topics", "created_at", "updated_at", "archived",
      "owner", "license", "homepage" }

\* the values a key may carry when present: null, or values of its JSON type
KeyValues(k) ==
    CASE k = "description"       -> {None, PyStr(s_desc)}
      [] k = "language"          -> {None, PyStr(s_Go)}
      [] k = "stargazers_count"  -> {None, PyInt(5)}
      [] k = "forks_count"       -> {None, PyInt(2)}
      [] k = "open_issues_count" -> {None, PyInt(1)}
      [] k = "topics"            -> {None, PyList(<<s_cli, s_web>>)}
      [] k = "created_at"        -> {None, PyStr(s_t2023)}
      [] k = "updated_at"        -> {None, PyStr(s_t2024b)}
      [] k = "archived"          -> {None, PyBool(TRUE)}
      [] k = "owner"             -> { None, PyDict(EmptyDict),
                                      PyDict([login |-> PyStr(s_octo), type |-> PyStr(s_User)]),
                                      PyDict([login |-> None, type |-> PyStr(s_Organization)]) }
      [] k = "license"           -> { None, PyDict(EmptyDict),
                                      PyDict([key |-> PyStr(s_mit), name |-> PyStr(s_MIT)]),
                                      PyDict([key |-> PyStr(s_mit), name |-> None]) }
      [] k = "homepage"          -> {None, PyStr(s_url_h)}

\* the dicts with exactly the keys S
RECURSIVE DictsOver(_)
DictsOver(S) ==
    IF S = {} THEN {EmptyDict}
    ELSE LET k == CHOOSE x \in S : TRUE
         IN  {(k :> v) @@ d : v \in KeyValues(k), d \in DictsOver(S \ {k})}

Required == [full_name |-> PyStr(s_a_b), html_url |-> PyStr(s_url_x)]

\* every key present with a value of its type
FullRepo ==
    Required @@
    [ description |-> PyStr(s_desc), language |-> PyStr(s_Go),
      stargazers_count |-> PyInt(5), forks_count |-> PyInt(2),
      open_issues_count |-> PyInt(1), topics |-> PyList(<<s_cli, s_web>>),
      created_at |-> PyStr(s_t2023), updated_at |-> PyStr(s_t2024b),
      archived |-> PyBool(TRUE),
      owner |-> PyDict([login |-> PyStr(s_octo), type |-> PyStr(s_User)]),
      license |-> PyDict([key |-> PyStr(s_mit), name |-> PyStr(s_MIT)]),
      homepage |-> PyStr(s_url_h) ]

RepoObjects ==
    {FullRepo} \cup
    { Required @@ d :
        d \in UNION { DictsOver(S) :
                        S \in {T \in SUBSET OptKeys : Cardinality(T) <= MaxFields} } }

\* fields of the outer object of a wrapper entry that the code must not read
Decoy ==
    [ full_name |-> PyStr(s_decoy), html_url |-> PyStr(s_url_y),
      stargazers_count |-> PyInt(99), language |-> PyStr(s_Rust),
      owner |-> PyDict([login |-> PyStr(s_decoy), type |-> PyStr(s_Organization)]) ]

Siblings == {EmptyDict, [starred_at |-> None], [starred_at |-> PyStr(s_t2024)]}

RawEntries ==
         RepoObjects
    \cup {r @@ [starred_at |-> PyStr(s_t2024)] : r \in RepoObjects}
    \cup {[repo |-> PyDict(r)] @@ sib @@ d :
             r \in RepoObjects, sib \in Siblings, d \in {EmptyDict, Decoy}}

\* what get_starred_repos leaves behind when it returns `items`, fetched as
\* one page followed by the empty page
Fetched(items) ==
    /\ repos = items /\ response = NoResponse
    /\ page = (IF Len(items) = 0 THEN 1 ELSE 2)
    /\ requested = (IF Len(items) = 0 THEN <<1>> ELSE <<1, 2>>)
    /\ served = (IF Len(items) = 0 THEN <<>> ELSE <<[status |-> HTTP_OK, body |-> items]>>)
                \o <<[status |-> HTTP_OK, body |-> <<>>]>>

InitExport ==
    /\ pc = "export"
    /\ \E item \in RawEntries \cup PagePool : Fetched(<<item>>)
    /\ snapshot_file = NoFile /\ export_data = NoData /\ out = <<>>
    /\ padIdle /\ updIdle

NextExport == Export

SpecExport == InitExport /\ [][NextExport]_vars

---------------------------------------------------------------------------
(* print_recap on exported record sets *)

MaxRecords == 2

s_i_j      == <<105, 47, 106>>                        \* "i/j"
s_k_l      == <<107, 47, 108>>                        \* "k/l"
s_m_n      == <<109, 47, 110>>                        \* "m/n"
s_Zed_Q    == <<90, 101, 100, 47, 81>>                \* "Zed/Q"
s_zhongwen == <<20013, 25991>>                        \* two CJK ideographs
s_long     == Repeat(76, 60)                          \* "L" * 60
s_widename == Repeat(20013, 12) \o <<47, 114>>        \* 12 ideographs, then "/r"

GoEntry ==
    [ full_name |-> PyStr(s_i_j), html_url |-> PyStr(s_url_x),
      description |-> PyStr(s_desc), language |-> PyStr(s_Go),
      stargazers_count |-> PyInt(12), forks_count |-> PyInt(2),
      topics |-> PyList(<<s_cli, s_web>>), updated_at |-> PyStr(s_t2024b),
      archived |-> PyBool(TRUE),
      owner |-> PyDict([login |-> PyStr(s_octo), type |-> PyStr(s_Organization)]) ]
GoEntry2 ==
    [ full_name |-> PyStr(s_k_l), html_url |-> PyStr(s_url_y), language |-> PyStr(s_Go) ]
RustEntry ==
    [ repo |-> PyDict([ full_name |-> PyStr(s_Zed_Q), html_url |-> PyStr(s_url_x),
                        language |-> PyStr(s_Rust), stargazers_count |-> PyInt(1234567),
                        forks_count |-> PyInt(1000), topics |-> PyList(<<s_cli>>),
                        updated_at |-> PyStr(s_t2023) ]),
      starred_at |-> PyStr(s_t2024) ]
EmptyLanguageEntry ==
    [ full_name |-> PyStr(s_m_n), html_url |-> PyStr(s_url_y),
      language |-> PyStr(<<>>), topics |-> None ]
LongLanguageEntry ==
    [ full_name |-> PyStr(s_e_f), html_url |-> PyStr(s_url_x),
      language |-> PyStr(s_long), stargazers_count |-> PyInt(7) ]
WideNameEntry ==
    [ full_name |-> PyStr(s_widename), html_url |-> PyStr(s_url_y),
      language |-> PyStr(s_zhongwen), updated_at |-> PyStr(s_t2024),
      topics |-> PyList(<<s_zhongwen>>) ]

RecapPool ==
    { WrapperExample, GoEntry, GoEntry2, RustEntry, EmptyLanguageEntry,
      LongLanguageEntry, WideNameEntry }

InitRecap ==
    /\ pc = "recap"
    /\ \E items \in StringsUpTo(RecapPool, MaxRecords), now \in Clock :
          LET doc == export_to_json(items, now)
          IN  /\ Fetched(items)
              /\ snapshot_file = [written |-> TRUE, doc |-> doc]
              /\ export_data = [returned |-> TRUE, doc |-> doc]
    /\ out = <<>>
    /\ padIdle /\ updIdle

NextRecap == Recap

SpecRecap == InitRecap /\ [][NextRecap]_vars

---------------------------------------------------------------------------
(* ollama-updater.py: check_updates *)

MaxListed == 2      \* lines of model output of `ollama list`, of the catalog

\* Lines are sequences of whitespace-separated tokens (what line.split()
\* returns); tokens are TLA+ strings.
ModelNames == {"llama3", "mistral", "phi"}

Range(f) == {f[i] : i \in DOMAIN f}

HeaderLine == <<"NAME", "ID">>

\* stdout of `ollama list`: the header line, then one line per model
LocalOutputs ==
    {<<HeaderLine>> \o [i \in 1..Len(ms) |-> <<ms[i], "id">>] :
        ms \in StringsUpTo(ModelNames, MaxListed)}

\* stdout of curl: one line per listed model, possibly with blank lines
RemoteOutputs ==
    {[i \in 1..Len(ms) |-> <<ms[i]>>] : ms \in StringsUpTo(ModelNames, MaxListed)}
    \cup {<<<<m>>, <<>>>> : m \in ModelNames}

\* [line.split()[0] for line in output...split('\n')[1:]]
list_models(output) ==
    LET body == IF Len(output) = 0 THEN <<>> ELSE Tail(output)
    IN  [i \in 1..Len(body) |-> body[i][1]]

\* [line.split()[0] for line in ... if line.strip()]
remote_catalog(output) ==
    LET kept == SelectSeq(output, LAMBDA line : Len(line) > 0)
    IN  [i \in 1..Len(kept) |-> kept[i][1]]

\* mutant: the installed models are not subtracted
compute_updates_all(remote, local) == Range(remote)

\* updates = set(remote_models) - set(local_models)
compute_updates(remote, local) == Range(remote) \ Range(local)

NotFetched == [fetched |-> FALSE]

UpdInit ==
    /\ upc = "list" /\ local_models = <<>> /\ remote_models = NotFetched
    /\ updates = {} /\ pending = {} /\ pulled = <<>> /\ log = <<>>

\* local_models = list_models()
ListModels ==
    /\ upc = "list"
    /\ \E output \in LocalOutputs : local_models' = list_models(output)
    /\ upc' = "curl"
    /\ UNCHANGED <<remote_models, updates, pending, pulled, log>>
    /\ UNCHANGED <<pipeVars, padVars>>

\* the catalog is retrieved; the difference is computed and, when it is not
\* empty, the log line is written before the first pull
CurlOk ==
    /\ upc = "curl"
    /\ \E output \in RemoteOutputs :
          LET remote == remote_catalog(output)
              diff   == compute_updates(remote, local_models)
          IN  /\ remote_models' = [fetched |-> TRUE, value |-> remote]
              /\ updates' = diff
              /\ pending' = diff
              /\ log' = IF diff # {} THEN Append(log, [models |-> diff]) ELSE log
              /\ upc' = IF diff # {} THEN "pull" ELSE "done"
    /\ UNCHANGED <<local_models, pulled>>
    /\ UNCHANGED <<pipeVars, padVars>>

\* subprocess.check_output raises: the except branch returns
CurlFail ==
    /\ upc = "curl"
    /\ upc' = "done"
    /\ UNCHANGED <<local_models, remote_models, updates, pending, pulled, log>>
    /\ UNCHANGED <<pipeVars, padVars>>

\* one iteration of `for model in updates: pull_model(model)`
PullModel ==
    /\ upc = "pull"
    /\ \E model \in pending :
          /\ pulled' = Append(pulled, model)
          /\ pending' = pending \ {model}
          /\ upc' = IF pending \ {model} = {} THEN "done" ELSE "pull"
    /\ UNCHANGED <<local_models, remote_models, updates, log>>
    /\ UNCHANGED <<pipeVars, padVars>>

InitUpd == pipeIdle /\ padIdle /\ UpdInit

NextUpd == ListModels \/ CurlOk \/ CurlFail \/ PullModel

SpecUpd == InitUpd /\ [][NextUpd]_vars

---------------------------------------------------------------------------
(* Properties *)

\* the responses received so far, the one being handled included
Responses == served \o (IF pc = "respond" THEN <<response>> ELSE <<>>)

Failed(resp)    == resp.status # HTTP_OK
EmptyPage(resp) == resp.status = HTTP_OK /\ Len(resp.body) = 0

RECURSIVE Flatten(_)
Flatten(bodies) ==
    IF Len(bodies) = 0 THEN <<>> ELSE Head(bodies).body \o Flatten(Tail(bodies))

\* C1: a page request answered with a non-success status ends the run: it is
\* the last request, nothing is requested after it, and the snapshot file is
\* not written; the file is written only after the loop ended on an empty
\* page with every response a success.
C1_FailureIsTerminal ==
    /\ \A i \in 1..Len(Responses) :
          Failed(Responses[i]) =>
              /\ i = Len(Responses)
              /\ Len(requested) = i
              /\ pc \in {"respond", "crashed"}
              /\ ~snapshot_file.written
    /\ snapshot_file.written =>
          /\ Len(served) >= 1
          /\ EmptyPage(served[Len(served)])
          /\ \A i \in 1..Len(served) : ~Failed(served[i])

\* a failure after pages were fetched successfully
C1_Witness ==
    /\ pc = "crashed"
    /\ Len(served) >= 2
    /\ Failed(served[Len(served)])
    /\ Len(repos) >= 1
    /\ ~snapshot_file.written

C2_Safety ==
    /\ requested = [i \in 1..Len(requested) |-> i]
    /\ Len(requested) = Len(Responses)
    /\ \A i \in 1..Len(Responses) : EmptyPage(Responses[i]) => i = Len(Responses)
    /\ pc \in {"export", "recap", "done"} =>
          Len(served) >= 1 /\ EmptyPage(served[Len(served)])
    /\ (Len(served) >= 1 /\ EmptyPage(served[Len(served)])) =>
          /\ pc \notin {"request", "respond"}
          /\ \A i \in 1..Len(served) : ~Failed(served[i])
          /\ repos = Flatten(served)

\* C2: pages are requested one at a time as 1, 2, 3, ..., each once; no
\* request follows the first empty page; the sequence returned is the
\* concatenation, in page order, of the bodies before the empty page; and
\* once an empty page has arrived the fetch ends.
C2_OrderedPagination ==
    /\ []C2_Safety
    /\ (pc = "respond" /\ EmptyPage(response)) ~> (pc \notin {"request", "respond"})

\* two non-empty pages, then the empty page
C2_Witness ==
    /\ pc = "export"
    /\ requested = <<1, 2, 3>>
    /\ Len(served[1].body) >= 1 /\ Len(served[2].body) >= 1
    /\ served[1].body # served[2].body

\* C3 (as claimed): with full_name and html_url present, normalization
\* never raises, whatever optional fields are absent, null or set.
C3_NormalizationTotal ==
    (\A i \in 1..Len(repos) :
        LET r == RepoSource(repos[i])
        IN  r.t = "dict" /\ {"full_name", "html_url"} \subseteq DOMAIN r.v)
    => pc # "crashed"

\* the value the claim expects for key k of the source object r
Expected(r, k, default) == IF k \in DOMAIN r /\ r[k] # None THEN r[k] ELSE default

ExpectedNested(r, k, field) ==
    IF k \in DOMAIN r /\ r[k] # None THEN Expected(r[k].v, field, None) ELSE None

\* C4 (as claimed): each optional field of the record is the raw value when
\* present and non-null, else its default: 0 for the three counts, the empty
\* sequence for topics, false for archived, null for the others.
C4_DocumentedDefaults ==
    pc = "recap" =>
        \A i \in 1..Len(repos) :
            LET r   == RepoSource(repos[i]).v
                rec == export_data.doc.repositories[i]
            IN  /\ rec.description = Expected(r, "description", None)
                /\ rec.language    = Expected(r, "language", None)
                /\ rec.stars       = Expected(r, "stargazers_count", PyInt(0))
                /\ rec.forks       = Expected(r, "forks_count", PyInt(0))
                /\ rec.open_issues = Expected(r, "open_issues_count", PyInt(0))
                /\ rec.topics      = Expected(r, "topics", PyList(<<>>))
                /\ rec.created_at  = Expected(r, "created_at", None)
                /\ rec.updated_at  = Expected(r, "updated_at", None)
                /\ rec.archived    = Expected(r, "archived", PyBool(FALSE))
                /\ rec.owner       = ExpectedNested(r, "owner", "login")
                /\ rec.owner_type  = ExpectedNested(r, "owner", "type")
                /\ rec.license     = ExpectedNested(r, "license", "name")
                /\ rec.homepage    = Expected(r, "homepage", None)

\* the fields of a record as read from the object src
ReadFrom(rec, src) ==
    /\ rec.name        = src["full_name"]
    /\ rec.url         = src["html_url"]
    /\ rec.description = (IF "description" \in DOMAIN src THEN src["description"] ELSE None)
    /\ rec.language    = (IF "language" \in DOMAIN src THEN src["language"] ELSE None)
    /\ rec.stars       = (IF "stargazers_count" \in DOMAIN src THEN src["stargazers_count"] ELSE PyInt(0))
    /\ rec.forks       = (IF "forks_count" \in DOMAIN src THEN src["forks_count"] ELSE PyInt(0))
    /\ rec.open_issues = (IF "open_issues_count" \in DOMAIN src THEN src["open_issues_count"] ELSE PyInt(0))
    /\ rec.topics      = (IF "topics" \in DOMAIN src THEN src["topics"] ELSE PyList(<<>>))
    /\ rec.created_at  = (IF "created_at" \in DOMAIN src THEN src["created_at"] ELSE None)
    /\ rec.updated_at  = (IF "updated_at" \in DOMAIN src THEN src["updated_at"] ELSE None)
    /\ rec.archived    = (IF "archived" \in DOMAIN src THEN src["archived"] ELSE PyBool(FALSE))
    /\ rec.homepage    = (IF "homepage" \in DOMAIN src THEN src["homepage"] ELSE None)
    /\ "owner" \in DOMAIN src =>
          /\ rec.owner      = (IF "login" \in DOMAIN src["owner"].v THEN src["owner"].v["login"] ELSE None)
          /\ rec.owner_type = (IF "type" \in DOMAIN src["owner"].v THEN src["owner"].v["type"] ELSE None)
    /\ "owner" \notin DOMAIN src => rec.owner = None /\ rec.owner_type = None
    /\ ("license" \in DOMAIN src /\ src["license"].t = "dict") =>
          rec.license = (IF "name" \in DOMAIN src["license"].v THEN src["license"].v["name"] ELSE None)
    /\ ("license" \notin DOMAIN src \/ src["license"] = None) => rec.license = None

\* C5: an entry with the key "repo" is a wrapper: every field comes from the
\* object under that key and starred_at is the sibling value (null when there
\* is none); an entry without the key is read itself and starred_at is null
\* even when it carries one.  The spec's two example entries give
\* (starred_at = T, stars = 5) and (starred_at = null, stars = 0).
C5_ShapeByWrapperKey ==
    pc = "recap" =>
        \A i \in 1..Len(repos) :
            LET item == repos[i]
                rec  == export_data.doc.repositories[i]
            IN  /\ "repo" \in DOMAIN item =>
                      /\ ReadFrom(rec, item["repo"].v)
                      /\ rec.starred_at =
                            (IF "starred_at" \in DOMAIN item THEN item["starred_at"] ELSE None)
                /\ "repo" \notin DOMAIN item =>
                      /\ ReadFrom(rec, item)
                      /\ rec.starred_at = None
                /\ item = WrapperExample =>
                      rec.starred_at = PyStr(s_t2024) /\ rec.stars = PyInt(5)
                /\ item = BareExample =>
                      rec.starred_at = None /\ rec.stars = PyInt(0)

\* a wrapper entry whose outer object also carries repository fields
C5_Witness ==
    /\ pc = "recap"
    /\ "repo" \in DOMAIN repos[1]
    /\ "full_name" \in DOMAIN repos[1]
    /\ "starred_at" \in DOMAIN repos[1]
    /\ repos[1]["full_name"] # repos[1]["repo"].v["full_name"]
    /\ export_data.doc.repositories[1].name = PyStr(s_a_b)

\* C6: the document written and returned holds one record per raw entry, in
\* fetch order (record i is the normalization of entry i), and total_count
\* is the number of records.
C6_SnapshotMirrorsFetch ==
    snapshot_file.written =>
        LET doc == snapshot_file.doc
        IN  /\ export_data = [returned |-> TRUE, doc |-> doc]
            /\ doc.total_count = Len(doc.repositories)
            /\ Len(doc.repositories) = Len(repos)
            /\ repos = Flatten(served)
            /\ \A i \in 1..Len(repos) :
                  /\ doc.repositories[i] = repo_data(repos[i])
                  /\ doc.repositories[i].name = RepoSource(repos[i]).v["full_name"]

\* two pages whose entries are not in name order
C6_Witness ==
    /\ snapshot_file.written
    /\ Len(requested) = 3
    /\ Len(snapshot_file.doc.repositories) >= 2
    /\ StrLess(snapshot_file.doc.repositories[2].name.v,
               snapshot_file.doc.repositories[1].name.v)

\* the width of the panel line i of `out` lies in: that of the latest border
BorderBefore(i) ==
    CHOOSE j \in 1..(i - 1) :
        /\ Len(out[j]) > 0 /\ out[j][1] = 43
        /\ \A k \in (j + 1)..(i - 1) : Len(out[k]) = 0 \/ out[k][1] # 43

IsPanelLine(i) == Len(out[i]) >= 2 /\ out[i][1] = 124 /\ out[i][Len(out[i])] = 124

\* C7 (as claimed): every content line of a panel measures, between its two
\* borders, exactly the panel's interior width.
C7_PanelLinesExactWidth ==
    \A i \in 1..Len(out) :
        IsPanelLine(i) =>
            display_width(SubSeq(out[i], 2, Len(out[i]) - 1)) = Len(out[BorderBefore(i)]) - 2

\* C8: when display_width(content) <= width, pad_line returns content
\* followed by exactly width - display_width(content) spaces and the result
\* measures exactly width; pad_line("AB", 5) = "AB   ".
C8_PadLineExactWidth ==
    padded.called =>
        /\ display_width(content) <= total_width =>
              /\ Len(padded.value) = Len(content) + (total_width - display_width(content))
              /\ SubSeq(padded.value, 1, Len(content)) = content
              /\ \A i \in (Len(content) + 1)..Len(padded.value) : padded.value[i] = 32
              /\ display_width(padded.value) = total_width
        /\ (content = <<65, 66>> /\ total_width = 5) => padded.value = <<65, 66, 32, 32, 32>>

\* content with a wide and a zero-width character, padded
C8_Witness ==
    /\ padded.called
    /\ display_width(content) < total_width
    /\ \E i \in 1..Len(content) : char_width(content[i]) = 2
    /\ \E i \in 1..Len(content) : char_width(content[i]) = 0

RECURSIVE SumCounts(_)
SumCounts(c) == IF Len(c) = 0 THEN 0 ELSE Head(c).count + SumCounts(Tail(c))

Records == export_data.doc.repositories

HistogramOver(counted) ==
    LET h == language_counter(Records)
    IN  /\ SumCounts(h) = Cardinality(counted)
        /\ {h[j].key : j \in 1..Len(h)} = {Records[i].language.v : i \in counted}
        /\ \A j, k \in 1..Len(h) : h[j].key = h[k].key => j = k
        /\ \A j \in 1..Len(h) :
              h[j].count = Cardinality({i \in counted : Records[i].language.v = h[j].key})

\* C9 (as claimed): the counts of the language histogram sum to the number
\* of records whose language is non-null, with one key per distinct
\* non-null language.
C9_HistogramCountsNonNull ==
    pc = "done" => HistogramOver({i \in 1..Len(Records) : Records[i].language # None})

\* C9 (amended): the histogram counts the records whose language is neither
\* null nor the empty string, with one key per distinct such language.
C9_HistogramCountsNonEmpty ==
    pc = "done" =>
        HistogramOver({i \in 1..Len(Records) :
                          Records[i].language # None /\ Records[i].language # PyStr(<<>>)})

\* a record set with a counted language and one with no language
C9_Witness ==
    /\ pc = "done"
    /\ Len(Records) = 2
    /\ \E i \in 1..2 : ~Truthy(Records[i].language)
    /\ \E i \in 1..2 : Truthy(Records[i].language)

Occurrences(seq, x) == Cardinality({i \in 1..Len(seq) : seq[i] = x})

\* C10: when the catalog was retrieved, pull_model ran exactly once for every
\* identifier of the catalog that is not installed and for no other, and a log
\* line was appended exactly when there was one; when retrieval failed,
\* nothing was pulled and nothing logged.
C10_PullsAreTheDifference ==
    /\ \A i \in 1..Len(pulled) : pulled[i] \notin Range(local_models)
    /\ upc = "done" =>
          IF remote_models.fetched
          THEN LET missing == Range(remote_models.value) \ Range(local_models)
               IN  /\ \A m \in ModelNames :
                         Occurrences(pulled, m) = (IF m \in missing THEN 1 ELSE 0)
                   /\ Len(log) = (IF missing # {} THEN 1 ELSE 0)
          ELSE pulled = <<>> /\ log = <<>>

\* a catalog with one model installed and one missing
C10_Witness ==
    /\ upc = "done"
    /\ remote_models.fetched
    /\ Len(pulled) = 1
    /\ Len(log) = 1
    /\ Range(remote_models.value) \cap Range(local_models) # {}

=============================================================================
